---- MODULE Spec2Model ----
(***************************************************************************)
(* A model of GitSuperRepository.py: the super-repository's index, its     *)
(* internal configuration, the declarative .gitmodules file (working-tree  *)
(* and staged version), the working-tree directories and the submodule     *)
(* repositories, with one action per public method.                        *)
(*                                                                         *)
(* The git commands the methods run are modelled by their contract: a       *)
(* configuration key holds a list of values (a renamed section can come to *)
(* share its name with an existing one), a read returns the last value and *)
(* fails on an absent key, a write fails on a key with several values,     *)
(* removing or renaming an absent section fails, `rm --cached` drops the   *)
(* index entry, `add` of a module directory stages a gitlink, `add` of     *)
(* .gitmodules copies the working-tree file into the index, `checkout --`  *)
(* copies it back.  The process's working directory is the repository root.*)
(***************************************************************************)
EXTENDS Integers, Sequences, FiniteSets, TLC

\* ------------------------------------------------------------------ bounds
MaxOps     == 2   \* operations performed after the initial state
MaxBatch   == 3   \* length of the module list handed to a batch operation
MaxEntries == 2   \* entries of one `ls-files --stage` listing

\* ------------------------------------------------------------------ values
Paths == {"A", "B", "C"}

Keys == {"path", "url", "upstreamurl", "upstreamtype", "revision"}

\* `git ls-files --stage` modes, as the characters is_submodule compares
Gitlink == <<"1", "6", "0", "0", "0", "0">>
Blob    == <<"1", "0", "0", "6", "4", "4">>
Modes   == {Gitlink, Blob}

\* A section with no key at all; a key's value list is empty when it is absent.
EmptySection == [k \in Keys |-> <<>>]

\* A configuration file: whether it exists, the section names its headers
\* declare, and each section's keys.
NoFile    == [exists |-> FALSE, names |-> {}, sec |-> [p \in Paths |-> EmptySection]]
EmptyFile == [exists |-> TRUE,  names |-> {}, sec |-> [p \in Paths |-> EmptySection]]

\* The upstream metadata a path is declared with: two variants per path, so
\* that an edit of .gitmodules can change the metadata of a declared path.
KindOf(p, v) ==
    IF v = 1 THEN (CASE p = "A" -> "git" [] p = "B" -> "svn" [] OTHER -> "hg")
             ELSE (CASE p = "A" -> "svn" [] p = "B" -> "bzr" [] OTHER -> "git")

Declared(p, v) ==
    [path         |-> <<p>>,
     url          |-> <<"origin-" \o p>>,
     upstreamurl  |-> <<IF v = 1 THEN "up-" \o p ELSE "up2-" \o p>>,
     upstreamtype |-> <<KindOf(p, v)>>,
     revision     |-> <<IF v = 1 THEN "master" ELSE "devel">>]

\* The file declaring the paths of S, each with the variant ver[p].
FileOf(S, ver) ==
    [exists |-> TRUE, names |-> S,
     sec |-> [p \in Paths |-> IF p \in S THEN Declared(p, ver[p]) ELSE EmptySection]]

Last(s) == s[Len(s)]

\* What a method returns: None, or a value with the name of its Python type
None == [type |-> "NoneType", value |-> <<>>]
Value(type, v) == [type |-> type, value |-> <<v>>]

\* The repositories: the submodules, and the super-repository itself
Super == "."
Repos == Paths \cup {Super}

\* The local branches asked about, and a repository's configuration of one:
\* the values of branch.<b>.remote and branch.<b>.merge (none: key absent)
Branches == {"master", "topic"}
NoRemote   == [remote |-> <<>>, merge |-> <<>>]
RemoteOnly == [remote |-> <<"origin">>, merge |-> <<>>]
Tracking   == [remote |-> <<"origin">>, merge |-> <<"refs/heads/master">>]
TrackingShort == [remote |-> <<"origin">>, merge |-> <<"master">>]
BranchConfigs == {NoRemote, RemoteOnly, Tracking, TrackingShort}

\* The strings the model's configuration values and command outputs are made
\* of (TLC does not index into a string: a suffix or prefix is found by
\* comparing with the concatenations of these)
Texts ==
    {"git", "svn", "hg", "bzr", "master", "devel", "origin", "refs/heads/master", ""}
      \cup Paths
      \cup UNION {{"origin-" \o p, "up-" \o p, "up2-" \o p, "up3-" \o p} : p \in Paths}

\* ------------------------------------------------ strings, as character lists
\* str.rstrip('\n')
RECURSIVE rstrip(_)
rstrip(s) ==
    IF s # <<>> /\ Last(s) = "\n" THEN rstrip(SubSeq(s, 1, Len(s) - 1)) ELSE s

\* str.split('\n')
RECURSIVE split(_)
split(s) ==
    IF \E i \in 1..Len(s) : s[i] = "\n"
    THEN LET i == CHOOSE j \in 1..Len(s) :
                      s[j] = "\n" /\ \A k \in 1..(j - 1) : s[k] # "\n"
         IN  <<SubSeq(s, 1, i - 1)>> \o split(SubSeq(s, i + 1, Len(s)))
    ELSE <<s>>

\* str.rstrip('\n') on a string of the model: a text of Texts (none ends in
\* a newline) with newlines after it
RECURSIVE rstrip_str(_)
rstrip_str(v) ==
    IF v \in Texts THEN v
    ELSE IF \E w \in Texts \cup {t \o "\n" : t \in Texts} : v = w \o "\n"
    THEN rstrip_str(CHOOSE w \in Texts \cup {t \o "\n" : t \in Texts} : v = w \o "\n")
    ELSE v

\* What git_command returns for a `git config <key>` that prints the value v:
\* the output, v and a newline, without its trailing newlines, which is v
\* without its trailing newlines
config_output(v) == rstrip_str(v)

\* re.sub('^refs/heads/', '', remote_ref)
remote_branch(remote_ref) ==
    IF \E b \in Texts : remote_ref = "refs/heads/" \o b
    THEN CHOOSE b \in Texts : remote_ref = "refs/heads/" \o b
    ELSE remote_ref

\* __num_lines: the last index of enumerate(test.split('\n')), plus one
num_lines(test) == Len(split(test))

\* The output of `git ls-files --stage -- path`: one line per index entry,
\* "<mode> <object> <stage>\t<path>", each ended by a newline.
RECURSIVE LsFilesStage(_, _)
LsFilesStage(entries, path) ==
    IF entries = <<>> THEN <<>>
    ELSE Head(entries) \o <<" ", "h", " ", "0", "\t", path, "\n">>
           \o LsFilesStage(Tail(entries), path)

\* is_submodule, on the index `idx`
IsSubmoduleIgnoringCount(idx, path) ==
    LET output == rstrip(LsFilesStage(idx[path], path))
    IN  SubSeq(output, 1, IF Len(output) < 6 THEN Len(output) ELSE 6) = Gitlink

is_submodule(idx, path) ==
    LET output == rstrip(LsFilesStage(idx[path], path))
    IN  IF num_lines(output) # 1 THEN FALSE
        ELSE IF SubSeq(output, 1, IF Len(output) < 6 THEN Len(output) ELSE 6) = Gitlink
             THEN TRUE
             ELSE FALSE

\* ------------------------------------------------------- `git config` on a file
HasSection(f, m) == f.exists /\ m \in f.names

\* `git config [--file=f] submodule.<m>.<k>`: exit 1 when the key is absent
HasKey(f, m, k) == HasSection(f, m) /\ f.sec[m][k] # <<>>
KeyValue(f, m, k) == Last(f.sec[m][k])

\* `git config [--file=f] submodule.<m>.<k> <v>`: exit 5 when the key holds
\* several values; creates the file and the section when needed
CanSetKey(f, m, k) == Len(f.sec[m][k]) <= 1
SetKey(f, m, k, v) ==
    [exists |-> TRUE, names |-> f.names \cup {m},
     sec |-> [f.sec EXCEPT ![m][k] = <<v>>]]

\* `git config --remove-section submodule.<m>` (exit 128 without the section)
RemoveSection(f, m) ==
    [f EXCEPT !.names = @ \ {m}, !.sec[m] = EmptySection]

\* `git config --rename-section submodule.<old> submodule.<new>` (exit 128
\* without the section `old`).  The header is rewritten in place: a section
\* already named `new` stays, and the keys of both are then read under `new`,
\* in file order (`oldLast`: the renamed section is the later one).
RenameSection(f, old, new, oldLast) ==
    IF old = new THEN f
    ELSE [f EXCEPT
            !.names = (@ \ {old}) \cup {new},
            !.sec = [@ EXCEPT
                       ![new] = [k \in Keys |->
                                   IF oldLast THEN f.sec[new][k] \o f.sec[old][k]
                                              ELSE f.sec[old][k] \o f.sec[new][k]],
                       ![old] = EmptySection]]

\* ------------------------------------------------------------ the repository
\* A repository value: the state the methods read and write, the external
\* commands run so far (calls), the methods sync_gitmodules invoked
\* (invoked), the paths whose failure output was printed (printed), and the
\* exception that ended the method ("ok": none).
Raise(r, e) == [r EXCEPT !.err = e]
Call(r, c)  == [r EXCEPT !.calls = Append(@, c)]

\* A step of a method: skipped once an exception has been raised.
Then(r, Step(_)) == IF r.err # "ok" THEN r ELSE Step(r)

\* git_command(['add', self.__dot_gitmodules])
SkipStaging(r) == r

GitAddGitmodules(r) ==
    LET r1 == Call(r, <<"git", "add", ".gitmodules">>)
    IN  IF ~r1.gitmodules.exists THEN Raise(r1, "CalledProcessError")
        ELSE [r1 EXCEPT !.staged = r1.gitmodules]

\* assert_is_submodule: ValueError unless is_submodule
SkipAssert(r, path) == r

assert_is_submodule(r, path) ==
    LET r1 == Call(r, <<"git", "ls-files", "--stage", "--", path>>)
    IN  IF ~is_submodule(r1.index, path) THEN Raise(r1, "ValueError") ELSE r1

\* get_gitmodules_config: the value is read by the caller with KeyValue;
\* CalledProcessError when the key is absent
get_gitmodules_config(r, module, option) ==
    LET r1 == Call(r, <<"git", "config", "--file=.gitmodules",
                        "submodule." \o module \o "." \o option>>)
    IN  IF HasKey(r1.gitmodules, module, option) THEN r1
        ELSE Raise(r1, "CalledProcessError")

\* upstream_type, upstream_url, revision: the value get_gitmodules_config
\* returns for the option
get_metadata_field(r, path, option) ==
    LET r1 == get_gitmodules_config(r, path, option)
    IN  Then(r1, LAMBDA x :
          [x EXCEPT !.ret = Value("str", config_output(KeyValue(x.gitmodules, path, option)))])

\* set_gitmodules_config
set_gitmodules_config(r, module, option, value) ==
    LET r1 == Call(r, <<"git", "config", "--file=.gitmodules",
                        "submodule." \o module \o "." \o option, value>>)
    IN  IF CanSetKey(r1.gitmodules, module, option)
        THEN [r1 EXCEPT !.gitmodules = SetKey(@, module, option, value)]
        ELSE Raise(r1, "CalledProcessError")

\* '--git-dir=' + os.path.join(module_abspath, '.git')
GitDir(module) == "--git-dir=" \o module \o "/.git"

\* git_command's handling of a non-zero exit: check_output's exception
\* propagates, or, with exceptions=False, is caught and its output printed
NonZeroExitAlwaysRaises(r, module, exceptions) == Raise(r, "CalledProcessError")

NonZeroExitIgnored(r, module, exceptions) == r

NonZeroExit(r, module, exceptions) ==
    IF exceptions THEN Raise(r, "CalledProcessError")
    ELSE [r EXCEPT !.printed = Append(@, module)]

\* git_command(command, module, exceptions) on a submodule: the assertion,
\* then the command in the module's directory.  `fails`: the command exits
\* non-zero; Effect: what it does to the repository when it succeeds.
git_command_module(r, command, module, exceptions, fails, Effect(_)) ==
    LET r1 == assert_is_submodule(r, module) IN
    IF r1.err # "ok" THEN r1
    ELSE LET r2 == Call(r1, <<"git", GitDir(module)>> \o Tail(command)) IN
         IF fails THEN NonZeroExit(r2, module, exceptions) ELSE Effect(r2)

\* ------------------------------------------------------------- LifecycleOps
\* git_command(['rm', '--cached', old]): the index entry goes, the directory
\* stays
GitRmDeletingDirectory(r, old) ==
    [Call(r, <<"git", "rm", "--cached", old>>) EXCEPT !.index[old] = <<>>,
                                                      !.worktree = @ \ {old}]

GitRmCached(r, old) ==
    [Call(r, <<"git", "rm", "--cached", old>>) EXCEPT !.index[old] = <<>>]

\* rm_submodule(old)
rm_submodule(r, old) ==
    LET r1 == assert_is_submodule(r, old)
        r2 == Then(r1, LAMBDA x :
                LET y == Call(x, <<"git", "config", "--remove-section", "submodule." \o old>>)
                IN  IF old \in y.config THEN [y EXCEPT !.config = @ \ {old}]
                    ELSE Raise(y, "CalledProcessError"))
        r3 == Then(r2, LAMBDA x :
                LET y == Call(x, <<"git", "config", "--file=.gitmodules",
                                   "--remove-section", "submodule." \o old>>)
                IN  IF HasSection(y.gitmodules, old)
                    THEN [y EXCEPT !.gitmodules = RemoveSection(@, old)]
                    ELSE Raise(y, "CalledProcessError"))
        r4 == Then(r3, LAMBDA x : GitRmCached(x, old))
    IN  Then(r4, GitAddGitmodules)

\* `git submodule add url path`: clones url into path and registers the path
\* in the index, in .gitmodules (path, url; staged) and in the internal
\* configuration.  Fails when the path is in the index already or the clone
\* fails (`fails`).
GitSubmoduleAdd(r, url, path, fails) ==
    LET r1 == Call(r, <<"git", "submodule", "add", url, path>>) IN
    IF fails \/ r1.index[path] # <<>>
       \/ ~CanSetKey(r1.gitmodules, path, "path")
       \/ ~CanSetKey(r1.gitmodules, path, "url")
    THEN Raise(r1, "CalledProcessError")
    ELSE LET f == SetKey(SetKey(r1.gitmodules, path, "path", path), path, "url", url)
         IN  [r1 EXCEPT !.worktree = @ \cup {path},
                        !.index[path] = <<Gitlink>>,
                        !.gitmodules = f,
                        !.staged = f,
                        !.config = @ \cup {path}]

\* add_submodule(path, url, upstreamurl, type, revision)
add_submodule(r, path, url, upstreamurl, type, revision, fails) ==
    LET r1 == GitSubmoduleAdd(r, url, path, fails)
        r2 == Then(r1, LAMBDA x : set_gitmodules_config(x, path, "upstreamurl", upstreamurl))
        r3 == Then(r2, LAMBDA x : set_gitmodules_config(x, path, "upstreamtype", type))
        r4 == Then(r3, LAMBDA x : set_gitmodules_config(x, path, "revision", revision))
    IN  Then(r4, GitAddGitmodules)

\* mv_submodule's renaming of the section in .gitmodules, and the new value
\* of its path key
RenameDeclaredKeepingPath(r, old, new, oldLast) ==
    LET y == Call(r, <<"git", "config", "--file=.gitmodules", "--rename-section",
                       "submodule." \o old, "submodule." \o new>>)
    IN  IF HasSection(y.gitmodules, old)
        THEN [y EXCEPT !.gitmodules = RenameSection(@, old, new, oldLast)]
        ELSE Raise(y, "CalledProcessError")

RenameDeclared(r, old, new, oldLast) ==
    LET y == Call(r, <<"git", "config", "--file=.gitmodules", "--rename-section",
                       "submodule." \o old, "submodule." \o new>>)
        r1 == IF HasSection(y.gitmodules, old)
              THEN [y EXCEPT !.gitmodules = RenameSection(@, old, new, oldLast)]
              ELSE Raise(y, "CalledProcessError")
    IN  Then(r1, LAMBDA x : set_gitmodules_config(x, new, "path", new))

\* mv_submodule(old, new)
mv_submodule(r, old, new, oldLast) ==
    LET r1 == assert_is_submodule(r, old)
        r2 == Then(r1, LAMBDA x :
                LET y == Call(x, <<"git", "config", "--rename-section",
                                   "submodule." \o old, "submodule." \o new>>)
                IN  IF old \in y.config
                    THEN [y EXCEPT !.config = (@ \ {old}) \cup {new}]
                    ELSE Raise(y, "CalledProcessError"))
        r4 == Then(r2, LAMBDA x : RenameDeclared(x, old, new, oldLast))
        r5 == Then(r4, LAMBDA x : GitRmCached(x, old))
        \* os.rename(old, new): the directory moves, with the repository in it
        r6 == Then(r5, LAMBDA x :
                IF old = new THEN x
                ELSE IF old \notin x.worktree \/ new \in x.worktree \/ x.index[new] # <<>>
                THEN Raise(x, "OSError")
                ELSE [x EXCEPT !.worktree = (@ \ {old}) \cup {new},
                               !.mods = [@ EXCEPT ![new] = x.mods[old],
                                                  ![old] = x.mods[new]]])
        r7 == Then(r6, LAMBDA x :
                [Call(x, <<"git", "add", new>>) EXCEPT !.index[new] = <<Gitlink>>])
    IN  Then(r7, GitAddGitmodules)

\* ---------------------------------------------------------- UpstreamManager
\* upstream_init's else branch: print('Unknown upstream repository type: ...')
UnknownTypeRaises(r, type) == Raise(r, "ValueError")

unknown_upstream_type(r, type) ==
    [r EXCEPT !.printed = Append(@, "Unknown upstream repository type: " \o type)]

\* upstream_init(path).  `fail` numbers the external command of the kind's
\* branch that exits non-zero (0: none does).
upstream_init(r, path, fail) ==
    LET r1 == assert_is_submodule(r, path)
        r2 == Then(r1, LAMBDA x : get_gitmodules_config(x, path, "upstreamtype"))
        r3 == Then(r2, LAMBDA x : get_gitmodules_config(x, path, "upstreamurl"))
    IN  Then(r3, LAMBDA x :
          LET type == config_output(KeyValue(x.gitmodules, path, "upstreamtype"))
              url  == config_output(KeyValue(x.gitmodules, path, "upstreamurl"))
          IN
          IF type = "svn" THEN
            LET s0 == get_gitmodules_config(x, path, "revision")
                s1 == Then(s0, LAMBDA y :
                        LET rev == config_output(KeyValue(y.gitmodules, path, "revision")) IN
                        git_command_module(y, <<"git", "checkout", rev>>, path, TRUE,
                            fail = 1,
                            LAMBDA z : [z EXCEPT !.mods[path].head = rev]))
                s2 == Then(s1, LAMBDA y :
                        git_command_module(y, <<"git", "svn", "init", "-s",
                                                "--prefix=origin/", url>>, path, TRUE,
                            fail = 2,
                            LAMBDA z : [z EXCEPT !.mods[path].up = Append(@, "svn-init")]))
            IN  Then(s2, LAMBDA y :
                        git_command_module(y, <<"git", "svn", "fetch">>, path, TRUE,
                            fail = 3,
                            LAMBDA z : [z EXCEPT !.mods[path].up = Append(@, "svn-fetch")]))
          ELSE IF type = "git" THEN
            git_command_module(x, <<"git", "remote", "add", "upstream", url>>, path, TRUE,
                fail = 1 \/ \E i \in 1..Len(x.mods[path].up) : x.mods[path].up[i] = "remote",
                LAMBDA z : [z EXCEPT !.mods[path].up = Append(@, "remote")])
          ELSE IF type = "hg" THEN
            \* subprocess.call: the exit status is dropped
            LET cloned(y) == \E i \in 1..Len(y.hg[path]) : y.hg[path][i] = "clone"
                h0 == Call(x, <<"hg", "clone", url, path \o ".hg">>)
                h1 == IF fail = 1 \/ cloned(h0) THEN h0
                      ELSE [h0 EXCEPT !.hg[path] = Append(@, "clone")]
                \* open(<path>.hg/.hg/hgrc, 'a'); write
                h2 == IF cloned(h1) THEN [h1 EXCEPT !.hg[path] = Append(@, "hgrc")]
                      ELSE Raise(h1, "IOError")
                h3 == Then(h2, LAMBDA y :
                        LET z == Call(y, <<"hg", "-R", path \o ".hg", "bookmark",
                                           "master", "-r", "default">>)
                        IN  IF fail = 2 THEN z
                            ELSE [z EXCEPT !.hg[path] = Append(@, "bookmark")])
                h4 == Then(h3, LAMBDA y :
                        LET z == Call(y, <<"hg", "-R", path \o ".hg", "gexport">>)
                        IN  IF fail = 3 THEN z
                            ELSE [z EXCEPT !.hg[path] = Append(@, "gexport")])
            IN  Then(h4, LAMBDA y :
                        LET z == Call(y, <<"hg", "-R", path \o ".hg", "pull", "git">>)
                        IN  IF fail = 4 THEN z
                            ELSE [z EXCEPT !.hg[path] = Append(@, "pull")])
          ELSE unknown_upstream_type(x, type))

\* The number of external commands of upstream_init's branch for a kind
BranchCommands(type) ==
    CASE type = "svn" -> 3 [] type = "git" -> 1 [] type = "hg" -> 4 [] OTHER -> 0

\* ---------------------------------------------------------------- Reconciler
\* list_submodules: the names in the section headers of the file
list_submodules(f) == f.names

\* self.config(['submodule.' + module + '.' + key], file=new_gitmodules)
ReadNew(r, tmp, module, key) ==
    LET r1 == Call(r, <<"git", "config", "--file=tmp.gitmodules",
                        "submodule." \o module \o "." \o key>>)
    IN  IF HasKey(tmp, module, key) THEN r1 ELSE Raise(r1, "CalledProcessError")

\* for module in old_submodules: self.rm_submodule(module)
RECURSIVE RemoveLoop(_, _)
RemoveLoop(r, order) ==
    IF order = <<>> \/ r.err # "ok" THEN r
    ELSE RemoveLoop(
           rm_submodule([r EXCEPT !.invoked = Append(@, <<"rm_submodule", Head(order)>>)],
                        Head(order)),
           Tail(order))

\* The file whose fields describe an added submodule: the temporary copy
AddSourceCanonical(r, tmp) == r.gitmodules

AddSource(r, tmp) == tmp

\* for module in new_submodules: read the five fields, add_submodule(...)
RECURSIVE AddLoop(_, _, _, _)
AddLoop(r, tmp, order, failAdd) ==
    IF order = <<>> \/ r.err # "ok" THEN r
    ELSE LET module == Head(order)
             src == AddSource(r, tmp)
             r1 == ReadNew(r, src, module, "path")
             r2 == Then(r1, LAMBDA x : ReadNew(x, src, module, "url"))
             r3 == Then(r2, LAMBDA x : ReadNew(x, src, module, "upstreamurl"))
             r4 == Then(r3, LAMBDA x : ReadNew(x, src, module, "upstreamtype"))
             r5 == Then(r4, LAMBDA x : ReadNew(x, src, module, "revision"))
             r6 == Then(r5, LAMBDA x :
                     LET path == config_output(KeyValue(src, module, "path"))
                         url  == config_output(KeyValue(src, module, "url"))
                         upstreamurl == config_output(KeyValue(src, module, "upstreamurl"))
                         type == config_output(KeyValue(src, module, "upstreamtype"))
                         revision == config_output(KeyValue(src, module, "revision"))
                     IN  add_submodule(
                           [x EXCEPT !.invoked = Append(@, <<"add_submodule", path, url,
                                                            upstreamurl, type, revision>>)],
                           path, url, upstreamurl, type, revision, module \in failAdd))
         IN  AddLoop(r6, tmp, Tail(order), failAdd)

\* The sets sync_gitmodules computes once the tracked .gitmodules is restored:
\* previous from the canonical (restored) file, current from the temporary copy
PreviousSwapped(canonical, tmp) == list_submodules(tmp)

previous_submodules(canonical, tmp) == list_submodules(canonical)

CurrentSwapped(canonical, tmp) == list_submodules(canonical)

current_submodules(canonical, tmp) == list_submodules(tmp)

OldSubmodulesFromCurrent(canonical, tmp) ==
    LET previous == previous_submodules(canonical, tmp)
        current  == current_submodules(canonical, tmp)
        common   == current \cap previous
    IN  current \ common

old_submodules(canonical, tmp) ==
    LET previous == previous_submodules(canonical, tmp)
        current  == current_submodules(canonical, tmp)
        common   == current \cap previous
    IN  previous \ common

new_submodules(canonical, tmp) ==
    LET previous == previous_submodules(canonical, tmp)
        current  == current_submodules(canonical, tmp)
        common   == current \cap previous
    IN  current \ common

\* os.rename(new_gitmodules, self.__dot_gitmodules): the temporary copy
\* replaces the canonical file
DiscardTemporary(r, tmp) == r

RenameBack(r, tmp) == [r EXCEPT !.gitmodules = tmp]

\* sync_gitmodules.  oldOrder, newOrder: the order in which the two sets are
\* iterated; failAdd: the added modules whose clone fails.
sync_gitmodules(r, oldOrder, newOrder, failAdd) ==
    IF ~r.gitmodules.exists
    THEN \* os.rename of the absent .gitmodules: the new temporary file stays
         Raise([r EXCEPT !.tmpfiles = @ \cup {EmptyFile}], "OSError")
    ELSE
    LET tmp == r.gitmodules
        r1  == Call([r EXCEPT !.gitmodules = NoFile],
                    <<"git", "checkout", "--", ".gitmodules">>)
    IN  IF ~r1.staged.exists
        THEN Raise([r1 EXCEPT !.tmpfiles = @ \cup {tmp}], "CalledProcessError")
        ELSE
        LET r2 == [r1 EXCEPT !.gitmodules = r1.staged]
            r3 == RemoveLoop(r2, oldOrder)
            r4 == AddLoop(r3, tmp, newOrder, failAdd)
        IN  IF r4.err # "ok"
            THEN [r4 EXCEPT !.tmpfiles = @ \cup {tmp}]
            ELSE GitAddGitmodules(RenameBack(r4, tmp))

\* --------------------------------------------------------------- BatchRunner
\* `fails`: the positions of the list whose external command exits non-zero

\* checkout_modules(modules)
RECURSIVE checkout_loop(_, _, _, _)
checkout_loop(r, modules, i, fails) ==
    IF i > Len(modules) \/ r.err # "ok" THEN r
    ELSE LET module == modules[i]
             r1 == get_gitmodules_config(r, module, "revision")
             r2 == Then(r1, LAMBDA x :
                     LET rev == config_output(KeyValue(x.gitmodules, module, "revision")) IN
                     git_command_module(x, <<"git", "checkout", "-q", rev>>, module, TRUE,
                         i \in fails,
                         LAMBDA z : [z EXCEPT !.mods[module].head = rev]))
         IN  checkout_loop(r2, modules, i + 1, fails)

checkout_modules(r, modules, fails) == checkout_loop(r, modules, 1, fails)

\* pull_ff(modules)
RECURSIVE pull_ff_loop(_, _, _, _)
pull_ff_loop(r, modules, i, fails) ==
    IF i > Len(modules) \/ r.err # "ok" THEN r
    ELSE LET module == modules[i]
             r1 == get_gitmodules_config(r, module, "revision")
             r2 == Then(r1, LAMBDA x :
                     git_command_module(x, <<"git", "pull", "--ff-only", "-q">>, module,
                         FALSE, i \in fails, LAMBDA z : z))
         IN  pull_ff_loop(r2, modules, i + 1, fails)

pull_ff(r, modules, fails) == pull_ff_loop(r, modules, 1, fails)

\* fetch_modules(modules)
RECURSIVE fetch_loop(_, _, _, _)
fetch_loop(r, modules, i, fails) ==
    IF i > Len(modules) \/ r.err # "ok" THEN r
    ELSE LET module == modules[i]
             r1 == git_command_module(r, <<"git", "fetch", "-q">>, module,
                       FALSE, i \in fails, LAMBDA z : z)
         IN  fetch_loop(r1, modules, i + 1, fails)

fetch_modules(r, modules, fails) == fetch_loop(r, modules, 1, fails)

\* remote_status(module, branch).  upstream, downstream: the lines the two
\* `rev-list --oneline` print (a line: the abbreviated id, a space, the title);
\* fail: which of the two exits non-zero (0: neither).
\* self.config(command, module): `git config` in the super-repository
\* (module None, here Super) or, after the assertion, in the submodule
config_module(r, key, module) ==
    IF module = Super THEN Call(r, <<"git", "config", key>>)
    ELSE LET r1 == assert_is_submodule(r, module)
         IN  IF r1.err # "ok" THEN r1
             ELSE Call(r1, <<"git", GitDir(module), "config", key>>)

\* (sha1, title) = commit.split(' ', 1) of every line: ValueError when a line
\* has no space
SplitCommit(line) ==
    LET i == CHOOSE j \in 1..Len(line) :
                 line[j] = " " /\ \A k \in 1..(j - 1) : line[k] # " "
    IN  [SHA1 |-> SubSeq(line, 1, i - 1), title |-> SubSeq(line, i + 1, Len(line))]

HasSpace(line) == \E j \in 1..Len(line) : line[j] = " "

\* git_command(['rev-list', '--oneline', range], module).splitlines(), parsed
rev_list(r, module, range, fails, lines) ==
    LET r0 == IF module = Super THEN r ELSE assert_is_submodule(r, module)
        r1 == Then(r0, LAMBDA x :
                LET y == Call(x, IF module = Super
                                 THEN <<"git", "rev-list", "--oneline", range>>
                                 ELSE <<"git", GitDir(module), "rev-list", "--oneline", range>>)
                IN  IF fails THEN Raise(y, "CalledProcessError") ELSE y)
    IN  Then(r1, LAMBDA x :
          IF \E i \in 1..Len(lines) : ~HasSpace(lines[i]) THEN Raise(x, "ValueError")
          ELSE x)

\* except: return None
RaiseNoRemote(r) == r

ReturnNoRemote(r) == [r EXCEPT !.ret = None, !.err = "ok"]

remote_status(r, module, branch, fail, upstream, downstream) ==
    LET cfg == r.mods[module].branch[branch]
        \* try: remote = self.config([...]) / except: return None
        t1 == config_module(r, "branch." \o branch \o ".remote", module)
        t2 == Then(t1, LAMBDA x :
                IF cfg.remote = <<>> THEN Raise(x, "CalledProcessError") ELSE x)
    IN  IF t2.err # "ok" THEN ReturnNoRemote(t2)
        ELSE
        LET remote == config_output(Last(cfg.remote))
            m1 == config_module(t2, "branch." \o branch \o ".merge", module)
            m2 == Then(m1, LAMBDA x :
                    IF cfg.merge = <<>> THEN Raise(x, "CalledProcessError") ELSE x)
        IN  Then(m2, LAMBDA x :
              LET rbranch == remote_branch(config_output(Last(cfg.merge)))
                  u == rev_list(x, module, branch \o ".." \o remote \o "/" \o rbranch,
                                fail = 1, upstream)
                  d == Then(u, LAMBDA y :
                         rev_list(y, module, remote \o "/" \o rbranch \o ".." \o branch,
                                  fail = 2, downstream))
              IN  Then(d, LAMBDA y :
                    [y EXCEPT !.ret = Value("dict",
                        [only_upstream |-> [i \in 1..Len(upstream) |-> SplitCommit(upstream[i])],
                         only_downstream |-> [i \in 1..Len(downstream) |->
                                                SplitCommit(downstream[i])]])]))

\* ------------------------------------------------------------------- state
VARIABLES
    index,      \* path -> the entries `git ls-files --stage -- path` lists (their modes)
    config,     \* the paths with a submodule section in the internal configuration
    gitmodules, \* the .gitmodules file of the working tree
    staged,     \* the .gitmodules file of the index (not existing: untracked)
    worktree,   \* the paths that are directories holding a module repository
    tmpfiles,   \* the temporary *.gitmodules files lying in the repository directory
    mods,       \* repository -> its checked-out revision, upstream set-up, branches
    hg,         \* path -> what was done in the sibling clone <path>.hg
    op,         \* the last method called, with its arguments
    result,     \* "ok", or the exception that ended it
    calls,      \* the external commands it ran, in order
    invoked,    \* the methods sync_gitmodules invoked, in order
    printed,    \* the failure reports it printed, in order
    returned,   \* what it returned (None also when an exception ended it)
    nops        \* methods called so far

repoVars == <<index, config, gitmodules, staged, worktree, tmpfiles, mods, hg>>
vars == <<index, config, gitmodules, staged, worktree, tmpfiles, mods, hg,
          op, result, calls, invoked, printed, returned, nops>>

\* The repository as a method finds it
Cur ==
    [index |-> index, config |-> config, gitmodules |-> gitmodules, staged |-> staged,
     worktree |-> worktree, tmpfiles |-> tmpfiles, mods |-> mods, hg |-> hg,
     calls |-> <<>>, invoked |-> <<>>, printed |-> <<>>, ret |-> None, err |-> "ok"]

\* The repository as a method leaves it
Returns(r, name, args) ==
    /\ nops < MaxOps
    /\ index' = r.index /\ config' = r.config /\ gitmodules' = r.gitmodules
    /\ staged' = r.staged /\ worktree' = r.worktree /\ tmpfiles' = r.tmpfiles
    /\ mods' = r.mods /\ hg' = r.hg
    /\ calls' = r.calls /\ invoked' = r.invoked /\ printed' = r.printed
    /\ result' = r.err
    /\ returned' = r.ret
    /\ op' = [name |-> name, args |-> args]
    /\ nops' = nops + 1

\* A repository: the revision checked out, the upstream set-up done in it,
\* and its configuration of each local branch
NoModule == [head |-> "", up |-> <<>>, branch |-> [b \in Branches |-> NoRemote]]

\* The orders in which a set can be iterated
Orders(S) == {o \in [1..Cardinality(S) -> S] : \A i, j \in 1..Cardinality(S) :
                                                   i # j => o[i] # o[j]}

\* The values the setters are tried with
Kinds     == {"svn", "bzr"}
Revisions == {"devel"}

\* ---------------------------------------------------------------- initially
\* __init__ accepts a directory with a .git directory and a .gitmodules file.
\* The submodules of S were added, cloned and committed; the working-tree
\* .gitmodules has since been edited to declare W (the metadata of B possibly
\* changed); with no submodule yet, .gitmodules may still be untracked.
InitFiles(S, tracked, edited) ==
    /\ index = [p \in Paths |-> IF p \in S THEN <<Gitlink>> ELSE <<>>]
    /\ config = S
    /\ staged = IF tracked THEN FileOf(S, [p \in Paths |-> 1]) ELSE NoFile
    /\ gitmodules = edited
    /\ worktree = S
    /\ tmpfiles = {}
    /\ mods = [p \in Repos |-> IF p \in S \cup {Super}
                                THEN [NoModule EXCEPT !.head = "master"]
                                ELSE NoModule]
    /\ hg = [p \in Paths |-> <<>>]
    /\ op = [name |-> "__init__", args |-> <<>>]
    /\ result = "ok"
    /\ calls = <<>> /\ invoked = <<>> /\ printed = <<>> /\ returned = None
    /\ nops = 0

InitRepo(S, W, vB, tracked) ==
    InitFiles(S, tracked, FileOf(W, [p \in Paths |-> IF p = "B" THEN vB ELSE 1]))

Init ==
    \E S \in SUBSET Paths, W \in SUBSET Paths, vB \in {1, 2}, tracked \in BOOLEAN :
        /\ vB = 2 => "B" \in W
        /\ ~tracked => S = {}
        /\ InitRepo(S, W, vB, tracked)

\* ------------------------------------------------------------------ actions
AddSubmodule ==
    \E path \in Paths, fails \in BOOLEAN :
        /\ fails => index[path] = <<>>
        /\ Returns(add_submodule(Cur, path, "origin-" \o path, "up-" \o path,
                                 KindOf(path, 1), "master", fails),
                   "add_submodule", <<path>>)

MvSubmodule ==
    \E old \in Paths, new \in Paths, oldLast \in BOOLEAN :
        /\ oldLast => HasSection(gitmodules, new) /\ old # new
        /\ Returns(mv_submodule(Cur, old, new, oldLast), "mv_submodule", <<old, new>>)

RmSubmodule ==
    \E old \in Paths :
        Returns(rm_submodule(Cur, old), "rm_submodule", <<old>>)

UpstreamInit ==
    \E path \in Paths :
        \E fail \in 0..(IF HasKey(gitmodules, path, "upstreamtype")
                        THEN BranchCommands(KeyValue(gitmodules, path, "upstreamtype"))
                        ELSE 0) :
            Returns(upstream_init(Cur, path, fail), "upstream_init", <<path>>)

SetUpstreamType ==
    \E path \in Paths, type \in Kinds :
        Returns(set_gitmodules_config(Cur, path, "upstreamtype", type),
                "set_upstream_type", <<path, type>>)

SetUpstreamUrl ==
    \E path \in Paths :
        Returns(set_gitmodules_config(Cur, path, "upstreamurl", "up3-" \o path),
                "set_upstream_url", <<path, "up3-" \o path>>)

SetRevision ==
    \E path \in Paths, revision \in Revisions :
        Returns(set_gitmodules_config(Cur, path, "revision", revision),
                "set_revision", <<path, revision>>)

SyncGitmodules ==
    \E oldOrder \in Orders(old_submodules(staged, gitmodules)),
       newOrder \in Orders(new_submodules(staged, gitmodules)),
       failAdd \in SUBSET new_submodules(staged, gitmodules) :
        Returns(sync_gitmodules(Cur, oldOrder, newOrder, failAdd), "sync_gitmodules", <<>>)

Next ==
    \/ AddSubmodule
    \/ MvSubmodule
    \/ RmSubmodule
    \/ UpstreamInit
    \/ SetUpstreamType
    \/ SetUpstreamUrl
    \/ SetRevision
    \/ SyncGitmodules

Spec == Init /\ [][Next]_vars

\* ------------------------------------------------- the batch operations alone
\* The submodules of S were added and committed; B's section may have been
\* deleted from .gitmodules since.
InitBatch ==
    \E S \in SUBSET Paths, dropB \in BOOLEAN :
        InitRepo(S, IF dropB THEN S \ {"B"} ELSE S, 1, TRUE)

\* A batch operation reads nothing that a batch operation writes (a checkout
\* only moves the module's HEAD), so each behaviour is one call on a
\* repository InitBatch draws.
\* The module lists a batch operation is tried with
ModuleLists == UNION {[1..n -> Paths] : n \in 0..MaxBatch}

CheckoutModules ==
    \E modules \in ModuleLists : \E fails \in SUBSET (1..Len(modules)) :
        /\ op.name = "__init__"
        /\ Returns(checkout_modules(Cur, modules, fails), "checkout_modules", modules)

PullFf ==
    \E modules \in ModuleLists : \E fails \in SUBSET (1..Len(modules)) :
        /\ op.name = "__init__"
        /\ Returns(pull_ff(Cur, modules, fails), "pull_ff", modules)

FetchModules ==
    \E modules \in ModuleLists : \E fails \in SUBSET (1..Len(modules)) :
        /\ op.name = "__init__"
        /\ Returns(fetch_modules(Cur, modules, fails), "fetch_modules", modules)

NextBatch ==
    \/ CheckoutModules
    \/ PullFf
    \/ FetchModules

SpecBatch == InitBatch /\ [][NextBatch]_vars

\* ------------------------------------------------------- is_submodule alone
\* The listings `git ls-files --stage -- path` can give: no entry, one entry
\* (a gitlink or a file), several (a directory's files, an unmerged path)
Listings == UNION {[1..n -> Modes] : n \in 0..MaxEntries}

InitListing ==
    /\ index \in [Paths -> Listings]
    /\ config = {} /\ staged = EmptyFile /\ gitmodules = EmptyFile
    /\ worktree = {} /\ tmpfiles = {}
    /\ mods = [p \in Repos |-> NoModule]
    /\ hg = [p \in Paths |-> <<>>]
    /\ op = [name |-> "__init__", args |-> <<>>]
    /\ result = "ok"
    /\ calls = <<>> /\ invoked = <<>> /\ printed = <<>> /\ returned = None
    /\ nops = 0

IsSubmodule ==
    \E path \in Paths :
        /\ nops < MaxOps
        /\ op' = [name |-> "is_submodule", args |-> <<path>>]
        /\ result' = IF is_submodule(index, path) THEN "True" ELSE "False"
        /\ calls' = <<<<"git", "ls-files", "--stage", "--", path>>>>
        /\ invoked' = <<>> /\ printed' = <<>>
        /\ returned' = Value("bool", result')
        /\ nops' = nops + 1
        /\ UNCHANGED repoVars

SpecIsSubmodule == InitListing /\ [][IsSubmodule]_vars

\* ------------------------------------------- the upstream metadata of a path
MetaKeys == {"upstreamtype", "upstreamurl", "revision"}

\* The methods that read and write a metadata field
GetterName(k) ==
    CASE k = "upstreamtype" -> "upstream_type"
      [] k = "upstreamurl"  -> "upstream_url"
      [] OTHER              -> "revision"
SetterName(k) ==
    CASE k = "upstreamtype" -> "set_upstream_type"
      [] k = "upstreamurl"  -> "set_upstream_url"
      [] OTHER              -> "set_revision"

\* The values a field is set to: some as typed, some as read from a line of
\* text, the newline still on them
FieldValues(k) ==
    CASE k = "upstreamtype" -> {"git", "bzr"}
      [] k = "upstreamurl"  -> {"up3-A"}
      [] OTHER              -> {"devel", "devel\n"}

\* A .gitmodules file without the keys of `missing`
Without(f, missing) ==
    [f EXCEPT !.sec = [p \in Paths |->
                         [k \in Keys |-> IF k \in missing THEN <<>> ELSE f.sec[p][k]]]]

\* The submodules of R were added and committed; the working-tree .gitmodules
\* has since been edited: it declares every path, with the metadata variant
\* v, and the keys of `missing` were deleted from it.
InitMetadata ==
    \E R \in {{"B"}, Paths}, v \in {1, 2}, missing \in SUBSET MetaKeys :
        InitFiles(R, TRUE, Without(FileOf(Paths, [p \in Paths |-> v]), missing))

SetMetadataField ==
    \E path \in Paths, k \in MetaKeys : \E value \in FieldValues(k) :
        Returns(set_gitmodules_config(Cur, path, k, value), SetterName(k), <<path, value>>)

GetMetadataField ==
    \E path \in Paths, k \in MetaKeys :
        Returns(get_metadata_field(Cur, path, k), GetterName(k), <<path>>)

NextMetadata ==
    \/ SetMetadataField
    \/ GetMetadataField
    \/ UpstreamInit
    \/ SyncGitmodules

SpecMetadata == InitMetadata /\ [][NextMetadata]_vars

\* ------------------------------------------------------ remote_status alone
\* The lines a `rev-list --oneline` prints: id, space, title (possibly empty,
\* possibly with spaces of its own)
CommitLines == {<<"c1", " ", "fix", " ", "it">>, <<"c2", " ">>}
CommitLists == {<<>>} \cup {<<l>> : l \in CommitLines}
                 \cup {<< <<"c1", " ", "fix", " ", "it">>, <<"c2", " ">> >>}

\* The submodules of S are registered; every repository configures its
\* branches as cfg says
InitRemoteStatus ==
    \E S \in SUBSET Paths, cfg \in [Branches -> BranchConfigs] :
        /\ index = [p \in Paths |-> IF p \in S THEN <<Gitlink>> ELSE <<>>]
        /\ config = S /\ worktree = S
        /\ staged = FileOf(S, [p \in Paths |-> 1])
        /\ gitmodules = staged
        /\ tmpfiles = {}
        /\ mods = [p \in Repos |-> IF p \in S \cup {Super}
                                    THEN [head |-> "master", up |-> <<>>, branch |-> cfg]
                                    ELSE NoModule]
        /\ hg = [p \in Paths |-> <<>>]
        /\ op = [name |-> "__init__", args |-> <<>>]
        /\ result = "ok"
        /\ calls = <<>> /\ invoked = <<>> /\ printed = <<>> /\ returned = None
        /\ nops = 0

RemoteStatus ==
    \E module \in Repos, branch \in Branches, fail \in 0..2,
       upstream \in CommitLists, downstream \in CommitLists :
        /\ op.name = "__init__"
        /\ Returns(remote_status(Cur, module, branch, fail, upstream, downstream),
                   "remote_status", <<module, branch>>)

SpecRemoteStatus == InitRemoteStatus /\ [][RemoteStatus]_vars

\* =================================================================== claims
Registered(idx) == {p \in Paths : is_submodule(idx, p)}

\* What a read of the key gives: no value (the read fails), or the value
Read(f, m, k) == IF HasKey(f, m, k) THEN <<KeyValue(f, m, k)>> ELSE <<>>

\* get_metadata: upstream kind, url and revision of a path
Metadata(f, m) == [k \in {"upstreamtype", "upstreamurl", "revision"} |-> Read(f, m, k)]

\* The step is a call of the method `name`
Called(name) == nops' = nops + 1 /\ op'.name = name

\* The modules a command `verb` was run in, in order
RECURSIVE AttemptedIn(_, _)
AttemptedIn(cs, verb) ==
    IF cs = <<>> THEN <<>>
    ELSE LET c == Head(cs) IN
         IF c[3] = verb /\ \E m \in Paths : c[2] = GitDir(m)
         THEN <<CHOOSE m \in Paths : c[2] = GitDir(m)>> \o AttemptedIn(Tail(cs), verb)
         ELSE AttemptedIn(Tail(cs), verb)

\* The modules of the list up to the first one the batch cannot run a command
\* in: one that is not a registered submodule (ValueError) or, when the
\* method reads the revision first, that declares none (CalledProcessError)
RECURSIVE Runnable(_, _)
Runnable(modules, needsRevision) ==
    IF modules = <<>> THEN <<>>
    ELSE LET m == Head(modules) IN
         IF needsRevision /\ ~HasKey(gitmodules, m, "revision") THEN <<>>
         ELSE IF ~is_submodule(index, m) THEN <<>>
         ELSE <<m>> \o Runnable(Tail(modules), needsRevision)

\* C8: is_submodule(p) is true exactly when the tracked-path listing of p has
\* one entry and that entry has the gitlink mode; no entry, one entry of
\* another mode, and two or more entries all give false.
C8_IsSubmoduleIffOneGitlink ==
    op.name = "is_submodule" =>
        LET entries == index[op.args[1]] IN
        (result = "True") <=> (Len(entries) = 1 /\ entries[1] = Gitlink)

C8_Witness ==
    /\ op.name = "is_submodule"
    /\ result = "False"
    /\ index[op.args[1]] = <<Gitlink, Gitlink>>

\* C9: in fetch_modules and pull_ff a non-zero exit of the external fetch or
\* pull of a module does not end the batch: the command is run once in every
\* module of the list, in list order, whichever of them exit non-zero (the
\* list being cut only at a module that is no registered submodule or, for
\* pull_ff, declares no revision), and each failure is printed.
C9_BatchContinues ==
    /\ op.name = "fetch_modules" =>
         /\ AttemptedIn(calls, "fetch") = Runnable(op.args, FALSE)
         /\ (Runnable(op.args, FALSE) = op.args) => result = "ok"
    /\ op.name = "pull_ff" =>
         /\ AttemptedIn(calls, "pull") = Runnable(op.args, TRUE)
         /\ (Runnable(op.args, TRUE) = op.args) => result = "ok"

C9_Witness ==
    /\ op.name = "fetch_modules"
    /\ op.args = <<"A", "B", "C">>
    /\ printed = <<"B">>
    /\ AttemptedIn(calls, "fetch") = <<"A", "B", "C">>

\* The paths whose command exited non-zero in the batch just run: those
\* whose failure fetch_modules or pull_ff printed; for checkout_modules the
\* module of the checkout that was its last command before CalledProcessError
FailedPaths ==
    IF op.name = "checkout_modules"
    THEN IF result = "CalledProcessError" /\ calls # <<>> /\ Last(calls)[3] = "checkout"
         THEN <<CHOOSE m \in Paths : Last(calls)[2] = GitDir(m)>>
         ELSE <<>>
    ELSE printed

\* C11: a batch (fetch_modules, pull_ff, checkout_modules) in which the
\* command of some path exited non-zero returns normally and hands its caller
\* the list of exactly the paths that failed, in list order.
C11_AggregateFailureList ==
    (op.name \in {"fetch_modules", "pull_ff", "checkout_modules"}
       /\ FailedPaths # <<>>)
    => /\ result = "ok"
       /\ returned = Value("list", FailedPaths)

\* The commands of `calls` whose verb is rev-list
RevLists(cs) == {i \in 1..Len(cs) : \E j \in 1..Len(cs[i]) : cs[i][j] = "rev-list"}

C10_CheckoutContinues ==
    op.name = "checkout_modules" =>
        AttemptedIn(calls, "checkout") = Runnable(op.args, TRUE)

\* The section names sync_gitmodules called rm_submodule with, and the paths
\* it called add_submodule with
RemovedBy(inv) == {inv[i][2] : i \in {j \in 1..Len(inv) : inv[j][1] = "rm_submodule"}}
AddedBy(inv)   == {inv[i][2] : i \in {j \in 1..Len(inv) : inv[j][1] = "add_submodule"}}

\* C1 (as claimed): whenever the paths the tracked .gitmodules declares
\* (previous) are all registered submodules and sync_gitmodules completes,
\* the registered submodules are afterwards exactly the paths the canonical
\* .gitmodules declares.
C1_Original ==
    [][(Called("sync_gitmodules") /\ result' = "ok"
         /\ list_submodules(staged) \subseteq Registered(index))
       => Registered(index') = list_submodules(gitmodules')]_vars

\* A file whose sections are named by the path they declare
NamedByPath(f) ==
    \A m \in list_submodules(f) : HasKey(f, m, "path") => f.sec[m].path = <<m>>

\* C1 (amended): whenever the registered submodules are exactly the paths the
\* tracked .gitmodules declares (previous), the sections of the working-tree
\* .gitmodules are named by their path, and sync_gitmodules completes, the
\* registered submodules are afterwards exactly the paths the canonical
\* .gitmodules declares.
C1_Convergence ==
    [][(Called("sync_gitmodules") /\ result' = "ok"
         /\ Registered(index) = list_submodules(staged)
         /\ NamedByPath(gitmodules))
       => Registered(index') = list_submodules(gitmodules')]_vars

C1_Witness ==
    /\ op.name = "sync_gitmodules" /\ result = "ok"
    /\ RemovedBy(invoked) = {"A"} /\ AddedBy(invoked) = {"C"}
    /\ Registered(index) = {"B", "C"}
    /\ list_submodules(gitmodules) = {"B", "C"}

\* C2: when sync_gitmodules has returned, by completing or by an exception,
\* no temporary .gitmodules file lies in the repository directory.
C2_NoTemporaryFileLeft ==
    op.name = "sync_gitmodules" => tmpfiles = {}

\* C3: when sync_gitmodules has returned, by completing or by an exception,
\* the canonical .gitmodules file exists.
C3_CanonicalFileExists ==
    [][(Called("sync_gitmodules") /\ gitmodules.exists) => gitmodules'.exists]_vars

\* C4 (as claimed): previous is what the temporary copy declares, current is
\* what the restored canonical file declares; a completed sync_gitmodules has
\* called rm_submodule exactly for previous - current and add_submodule
\* exactly for current - previous.
C4_Original ==
    [][(Called("sync_gitmodules") /\ result' = "ok")
       => LET previous == list_submodules(gitmodules)
              current  == list_submodules(staged)
          IN  /\ RemovedBy(invoked') = previous \ current
              /\ AddedBy(invoked') = current \ previous]_vars

\* C4 (amended): previous is what the restored canonical file (the tracked
\* version) declares, current is what the temporary copy (the working-tree
\* version moved aside) declares; a completed sync_gitmodules has called
\* rm_submodule exactly for the sections of previous - current and
\* add_submodule exactly for the sections of current - previous (with the path
\* each declares), each once, the removals first; one that ended in an
\* exception has called them for no other section.
C4_DiffDirection ==
    [][Called("sync_gitmodules")
       => LET previous == list_submodules(staged)
              current  == list_submodules(gitmodules)
              paths    == {KeyValue(gitmodules, m, "path") :
                             m \in {n \in current \ previous :
                                      HasKey(gitmodules, n, "path")}}
          IN  /\ RemovedBy(invoked') \subseteq previous \ current
              /\ AddedBy(invoked') \subseteq paths
              /\ result' = "ok" =>
                   /\ RemovedBy(invoked') = previous \ current
                   /\ AddedBy(invoked') = paths
                   /\ \A m \in current \ previous : HasKey(gitmodules, m, "path")
                   /\ Len(invoked') = Cardinality(previous \ current)
                                      + Cardinality(current \ previous)
                   /\ \A i, j \in 1..Len(invoked') :
                        (invoked'[i][1] = "add_submodule"
                           /\ invoked'[j][1] = "rm_submodule") => j < i]_vars

C4_Witness ==
    /\ op.name = "sync_gitmodules" /\ result = "ok"
    /\ Len(invoked) = 3
    /\ RemovedBy(invoked) = {"A", "B"} /\ AddedBy(invoked) = {"C"}

\* C5: sync_gitmodules calls neither rm_submodule nor add_submodule on a path
\* that both versions of .gitmodules declare, leaves its registration as it
\* was, and leaves its upstream metadata reading as before the call.
C5_CommonUntouched ==
    [][Called("sync_gitmodules")
       => \A p \in list_submodules(staged) \cap list_submodules(gitmodules) :
            /\ p \notin RemovedBy(invoked') \cup AddedBy(invoked')
            /\ is_submodule(index', p) = is_submodule(index, p)
            /\ Metadata(gitmodules', p) = Metadata(gitmodules, p)]_vars

\* C6 (as claimed): after a completed mv_submodule(old, new), old # new, old
\* is no submodule, new is one, the upstream metadata read under new is what
\* was read under old before, and .gitmodules differs only in the section's
\* name and its path.
C6_Original ==
    [][(Called("mv_submodule") /\ result' = "ok" /\ op'.args[1] # op'.args[2])
       => LET old == op'.args[1]
              new == op'.args[2]
          IN  /\ ~is_submodule(index', old)
              /\ is_submodule(index', new)
              /\ Metadata(gitmodules', new) = Metadata(gitmodules, old)
              /\ gitmodules' = [gitmodules EXCEPT
                     !.names = (@ \ {old}) \cup {new},
                     !.sec = [@ EXCEPT ![new] = [gitmodules.sec[old] EXCEPT
                                                   !.path = <<new>>],
                                       ![old] = EmptySection]]]_vars

\* C6 (amended): the same, for a `new` that .gitmodules declares no section
\* for before the call.
C6_MovePreservesMetadata ==
    [][(Called("mv_submodule") /\ result' = "ok" /\ op'.args[1] # op'.args[2]
         /\ ~HasSection(gitmodules, op'.args[2]))
       => LET old == op'.args[1]
              new == op'.args[2]
          IN  /\ ~is_submodule(index', old)
              /\ is_submodule(index', new)
              /\ Metadata(gitmodules', new) = Metadata(gitmodules, old)
              /\ gitmodules' = [gitmodules EXCEPT
                     !.names = (@ \ {old}) \cup {new},
                     !.sec = [@ EXCEPT ![new] = [gitmodules.sec[old] EXCEPT
                                                   !.path = <<new>>],
                                       ![old] = EmptySection]]]_vars

C6_Witness ==
    /\ op.name = "mv_submodule" /\ result = "ok" /\ op.args = <<"B", "C">>
    /\ ~is_submodule(index, "B") /\ is_submodule(index, "C")
    /\ Metadata(gitmodules, "C") = [upstreamtype |-> <<"bzr">>,
                                    upstreamurl |-> <<"up2-B">>,
                                    revision |-> <<"devel">>]
    /\ gitmodules.sec["C"].path = <<"C">>

\* C7: mv_submodule, rm_submodule and upstream_init on a path that is no
\* registered submodule end in the not-a-submodule error and have changed
\* nothing: internal configuration, .gitmodules (working tree and index),
\* index and working tree are as before.
C7_NotASubmoduleChangesNothing ==
    [][((Called("mv_submodule") \/ Called("rm_submodule") \/ Called("upstream_init"))
         /\ ~is_submodule(index, op'.args[1]))
       => /\ result' = "ValueError"
          /\ UNCHANGED repoVars
          /\ \A i \in 1..Len(calls') : calls'[i][2] = "ls-files"]_vars

C7_Witness ==
    /\ op.name = "mv_submodule" /\ result = "ValueError"
    /\ HasSection(gitmodules, op.args[1])
    /\ ~is_submodule(index, op.args[1])

\* C13: setting an upstream metadata field of a path p (kind, url or
\* revision) and then reading that field of p returns the value that was set,
\* whatever the value; and a set leaves the metadata of every other path as it
\* was.  (The triple is the three fields, each set and read by its own pair of
\* methods.)
C13_RoundTrip ==
    [][\A k \in MetaKeys :
         /\ (op.name = SetterName(k) /\ result = "ok"
               /\ Called(GetterName(k)) /\ op'.args[1] = op.args[1])
            => /\ result' = "ok"
               /\ returned' = Value("str", op.args[2])
         /\ (Called(SetterName(k)) /\ result' = "ok")
            => \A q \in Paths \ {op'.args[1]} :
                 Metadata(gitmodules', q) = Metadata(gitmodules, q)]_vars

\* The external commands of `cs` that initialise the upstream of path p: the
\* git commands run in the module, and the hg commands
InitCommands(cs, p) ==
    {i \in 1..Len(cs) : cs[i][1] = "hg" \/ cs[i][2] = GitDir(p)}

PartlyPopulated(f, m) == \E k \in MetaKeys : ~HasKey(f, m, k)

\* C14: upstream_init on a registered submodule that lacks one of kind, url
\* and revision ends in an error and has issued no initialisation command,
\* whatever the kind; sync_gitmodules with an added section that lacks one of
\* them ends in an error and has not called add_submodule for it.
C14_FullyPopulatedOrError ==
    [][/\ (Called("upstream_init") /\ is_submodule(index, op'.args[1])
             /\ PartlyPopulated(gitmodules, op'.args[1]))
          => /\ result' # "ok"
             /\ InitCommands(calls', op'.args[1]) = {}
       /\ Called("sync_gitmodules")
          => \A m \in list_submodules(gitmodules) \ list_submodules(staged) :
               PartlyPopulated(gitmodules, m)
               => /\ result' # "ok"
                  /\ m \notin AddedBy(invoked')]_vars

\* The three stores say the same about path p: it has a section in the
\* internal configuration, one in .gitmodules, and is registered in the index,
\* or none of the three
Agree(cfg, f, idx, p) ==
    /\ (p \in cfg) = HasSection(f, p)
    /\ HasSection(f, p) = is_submodule(idx, p)

\* C15: when add_submodule, mv_submodule or rm_submodule has ended, by
\* completing or by an exception, on paths the three stores agreed about, the
\* three stores still agree about those paths.
C15_StoresAgree ==
    [][(Called("add_submodule") \/ Called("mv_submodule") \/ Called("rm_submodule"))
       => ((\A i \in 1..Len(op'.args) : Agree(config, gitmodules, index, op'.args[i]))
           => \A i \in 1..Len(op'.args) :
                Agree(config', gitmodules', index', op'.args[i]))]_vars

\* C16: after a completed rm_submodule(p) on a registered submodule p, p has
\* no section in the internal configuration nor in .gitmodules, is not
\* registered, its directory is still in the working tree, .gitmodules is
\* staged, and registration, configuration and sections of every other path
\* are as before.
C16_RemoveFrame ==
    [][(Called("rm_submodule") /\ result' = "ok" /\ is_submodule(index, op'.args[1]))
       => LET p == op'.args[1]
          IN  /\ p \notin config'
              /\ ~HasSection(gitmodules', p)
              /\ ~is_submodule(index', p)
              /\ worktree' = worktree
              /\ staged' = gitmodules'
              /\ \A q \in Paths \ {p} :
                   /\ index'[q] = index[q]
                   /\ (q \in config') = (q \in config)
                   /\ HasSection(gitmodules', q) = HasSection(gitmodules, q)
                   /\ gitmodules'.sec[q] = gitmodules.sec[q]]_vars

C16_Witness ==
    /\ op.name = "rm_submodule" /\ op.args = <<"B">> /\ result = "ok"
    /\ "B" \in worktree /\ index["B"] = <<>>
    /\ "B" \notin config /\ ~HasSection(gitmodules, "B")
    /\ Registered(index) = {"A", "C"}
    /\ list_submodules(gitmodules) = {"A", "C"}

\* The add_submodule call that the five fields of section m in file f give
AddCallFrom(f, m) ==
    <<"add_submodule",
      config_output(KeyValue(f, m, "path")), config_output(KeyValue(f, m, "url")),
      config_output(KeyValue(f, m, "upstreamurl")),
      config_output(KeyValue(f, m, "upstreamtype")),
      config_output(KeyValue(f, m, "revision"))>>

\* The indices of the add_submodule calls among the methods invoked
Adds(inv) == {i \in 1..Len(inv) : inv[i][1] = "add_submodule"}

\* The command is sync_gitmodules' read of key k of section m
FieldRead(c, m, k) ==
    c = <<"git", "config", "--file=tmp.gitmodules", "submodule." \o m \o "." \o k>>

\* C17 (as claimed): every add_submodule call of sync_gitmodules passes the
\* five fields that the canonical .gitmodules, as the checkout restored it,
\* holds for a section.
C17_Original ==
    [][Called("sync_gitmodules")
       => \A i \in Adds(invoked') :
            \E m \in list_submodules(staged) :
              /\ \A k \in Keys : HasKey(staged, m, k)
              /\ invoked'[i] = AddCallFrom(staged, m)]_vars

\* C17 (amended): every add_submodule call of sync_gitmodules passes the five
\* fields that the temporary copy (the working-tree .gitmodules moved aside)
\* holds for an added section, and a read of a field fails only when the
\* temporary copy lacks it.
C17_ReadsTemporaryCopy ==
    [][Called("sync_gitmodules")
       => /\ \A i \in Adds(invoked') :
               \E m \in list_submodules(gitmodules) \ list_submodules(staged) :
                 /\ \A k \in Keys : HasKey(gitmodules, m, k)
                 /\ invoked'[i] = AddCallFrom(gitmodules, m)
          /\ \A m \in Paths, k \in Keys :
               (result' = "CalledProcessError" /\ calls' # <<>>
                  /\ FieldRead(Last(calls'), m, k))
               => ~HasKey(gitmodules, m, k)]_vars

C17_Witness ==
    /\ op.name = "sync_gitmodules" /\ result = "ok"
    /\ invoked # <<>>
    /\ Last(invoked) = <<"add_submodule", "A", "origin-A", "up2-A", "svn", "devel">>
    /\ is_submodule(index, "A")

\* The git commands of `cs` run in module p: verb and first argument
RECURSIVE ModuleCalls(_, _)
ModuleCalls(cs, p) ==
    IF cs = <<>> THEN <<>>
    ELSE IF Head(cs)[2] = GitDir(p)
         THEN <<SubSeq(Head(cs), 3, 4)>> \o ModuleCalls(Tail(cs), p)
         ELSE ModuleCalls(Tail(cs), p)

\* The declared kind, url and revision as upstream_init reads them
KindOfPath(f, p) == config_output(KeyValue(f, p, "upstreamtype"))

\* C18: upstream_init on a registered svn submodule that declares url and
\* revision runs, in the module, checkout <revision>, then svn init, then svn
\* fetch, stopping at the first that fails; it completes exactly when all
\* three have run and succeeded; when svn init fails, svn fetch is not run,
\* the method ends in CalledProcessError and the module stays on <revision>.
C18_SvnSequence ==
    [][(Called("upstream_init") /\ is_submodule(index, op'.args[1])
         /\ (\A k \in MetaKeys : HasKey(gitmodules, op'.args[1], k))
         /\ KindOfPath(gitmodules, op'.args[1]) = "svn")
       => LET p     == op'.args[1]
              rev   == config_output(KeyValue(gitmodules, p, "revision"))
              all   == << <<"checkout", rev>>, <<"svn", "init">>, <<"svn", "fetch">> >>
              steps == ModuleCalls(calls', p)
          IN  /\ Len(steps) \in 1..3
              /\ steps = SubSeq(all, 1, Len(steps))
              /\ result' \in {"ok", "CalledProcessError"}
              /\ (result' = "ok") =
                   (Len(steps) = 3
                      /\ mods'[p].up = mods[p].up \o <<"svn-init", "svn-fetch">>)
              /\ (Len(steps) = 2 /\ result' # "ok")
                 => /\ mods'[p].head = rev
                    /\ mods'[p].up = mods[p].up]_vars

C18_Witness ==
    /\ op.name = "upstream_init" /\ op.args = <<"A">>
    /\ result = "CalledProcessError"
    /\ ModuleCalls(calls, "A") = << <<"checkout", "devel">>, <<"svn", "init">> >>
    /\ mods["A"].head = "devel" /\ mods["A"].up = <<>>

\* C19 (as claimed): upstream_init on a registered submodule whose declared
\* kind is none of git, svn, hg prints the unknown-type report, issues no
\* initialisation command, changes nothing in the repository and returns
\* normally.
C19_Original ==
    [][(Called("upstream_init") /\ is_submodule(index, op'.args[1])
         /\ HasKey(gitmodules, op'.args[1], "upstreamtype")
         /\ KindOfPath(gitmodules, op'.args[1]) \notin {"git", "svn", "hg"})
       => /\ result' = "ok"
          /\ printed' = <<"Unknown upstream repository type: "
                            \o KindOfPath(gitmodules, op'.args[1])>>
          /\ InitCommands(calls', op'.args[1]) = {}
          /\ UNCHANGED repoVars]_vars

\* C19 (amended): the same, for a submodule that also declares an upstream
\* url (upstream_init reads the url before it looks at the kind).
C19_UnknownKindReported ==
    [][(Called("upstream_init") /\ is_submodule(index, op'.args[1])
         /\ HasKey(gitmodules, op'.args[1], "upstreamtype")
         /\ HasKey(gitmodules, op'.args[1], "upstreamurl")
         /\ KindOfPath(gitmodules, op'.args[1]) \notin {"git", "svn", "hg"})
       => /\ result' = "ok"
          /\ printed' = <<"Unknown upstream repository type: "
                            \o KindOfPath(gitmodules, op'.args[1])>>
          /\ InitCommands(calls', op'.args[1]) = {}
          /\ UNCHANGED repoVars]_vars

C19_Witness ==
    /\ op.name = "upstream_init" /\ op.args = <<"B">> /\ result = "ok"
    /\ is_submodule(index, "B")
    /\ gitmodules.sec["B"].upstreamtype = <<"bzr">>
    /\ printed = <<"Unknown upstream repository type: bzr">>

\* What an upstream-initialising command leaves behind when it succeeds
\* ("": nothing the model records, as for a checkout)
EffectOf(c) ==
    IF c[1] = "hg" THEN (IF c[2] = "clone" THEN "clone" ELSE c[4])
    ELSE CASE c[3] = "svn" /\ c[4] = "init"  -> "svn-init"
           [] c[3] = "svn" /\ c[4] = "fetch" -> "svn-fetch"
           [] c[3] = "remote"                -> "remote"
           [] OTHER                          -> ""

\* The elements a sequence gained
Gained(before, after) == {after[j] : j \in (Len(before) + 1)..Len(after)}

\* C20: in upstream_init, of every kind, no external command is issued after
\* one that exited non-zero, and a method one of whose commands exited
\* non-zero does not return normally: every initialising command issued, save
\* the last, has left its effect, and when the last has not, the method ended
\* in an exception.
C20_StopsAtFirstFailure ==
    [][Called("upstream_init")
       => LET p      == op'.args[1]
              issued == InitCommands(calls', p)
              done   == Gained(hg[p], hg'[p]) \cup Gained(mods[p].up, mods'[p].up)
          IN  \A i \in issued :
                (EffectOf(calls'[i]) # "" /\ EffectOf(calls'[i]) \notin done)
                => /\ \A j \in issued : j <= i
                   /\ result' # "ok"]_vars

\* C21: after a completed sync_gitmodules the canonical .gitmodules is the
\* working-tree .gitmodules as it was when the call started, whatever
\* rm_submodule and add_submodule wrote to the canonical file in between, and
\* it is staged.
C21_CanonicalIsStartingFile ==
    [][(Called("sync_gitmodules") /\ result' = "ok")
       => /\ gitmodules' = gitmodules
          /\ staged' = gitmodules]_vars

C21_Witness ==
    /\ op.name = "sync_gitmodules" /\ result = "ok"
    /\ RemovedBy(invoked) = {"A"} /\ AddedBy(invoked) = {"C"}
    /\ list_submodules(gitmodules) = {"B", "C"}
    /\ gitmodules.sec["B"].upstreamtype = <<"bzr">>
    /\ staged = gitmodules

\* C22: a sync_gitmodules called directly after a completed sync_gitmodules
\* completes, calls neither rm_submodule nor add_submodule, and leaves index,
\* internal configuration, .gitmodules (working tree and staged), working
\* tree and temporary files as they were.
C22_Idempotent ==
    [][(op.name = "sync_gitmodules" /\ result = "ok" /\ Called("sync_gitmodules"))
       => /\ result' = "ok"
          /\ invoked' = <<>>
          /\ UNCHANGED repoVars]_vars

\* The second of two calls: the directories of A and C are there, so the
\* repository started with A, B and C registered; only a sync_gitmodules can
\* have unregistered two of them in one call, it left no temporary file, so
\* it completed; this call invoked nothing.
C22_Witness ==
    /\ op.name = "sync_gitmodules" /\ result = "ok" /\ nops = 2
    /\ invoked = <<>>
    /\ worktree = Paths /\ tmpfiles = {}
    /\ Registered(index) = {"B"}
    /\ list_submodules(gitmodules) = {"B"}
    /\ staged = gitmodules

====
